---- MODULE Spec2Model ----
(***************************************************************************)
(* Model of backend/common/resource.py: the RequestParser null handling,   *)
(* and the generic REST controllers SimpleResource, SimpleCreate,          *)
(* ManyToOneLink and ManyToManyLink working on a transactional session.    *)
(***************************************************************************)
EXTENDS Integers, Sequences, FiniteSets, TLC

(***************************************************************************)
(* Bounds of the model.                                                    *)
(***************************************************************************)
\* integers carried by payloads and stored attributes are 1..MaxInt
MaxInt == 2
\* number of rows the resource (parent) table can ever hold: ids 1..MaxParents
MaxParents == 2
\* number of rows the child table can ever hold: ids 1..MaxChildren
MaxChildren == 1
\* identities current_user_id() can return: 1..MaxUsers
MaxUsers == 2
\* rows of the left / right tables a join table refers to: ids 1..MaxLeft, 1..MaxRight
MaxLeft == 2
MaxRight == 2
\* requests handled concurrently by ManyToManyLink.put
MaxRequests == 2

(***************************************************************************)
(* Python values.  Every value is a record of the same shape so that a     *)
(* JSON null, a string and an integer can be compared with each other.     *)
(***************************************************************************)
None == [k |-> "none", i |-> 0, s |-> ""]
\* the key is not present in the request at all
Missing == [k |-> "missing", i |-> 0, s |-> ""]
IntV(n) == [k |-> "int", i |-> n, s |-> ""]
StrV(t) == [k |-> "str", i |-> 0, s |-> t]
\* a raised exception, by its message
Raised(msg) == [k |-> "raise", i |-> 0, s |-> msg]

Ints == 1..MaxInt
\* the strings a request carries: the decimal numerals of Ints and a non-numeral
Strings == {ToString(n) : n \in Ints} \cup {"a"}
\* what a request can hold under one key
RawValues == {Missing, None} \cup {IntV(n) : n \in Ints} \cup {StrV(t) : t \in Strings}

(***************************************************************************)
(* Conversion functions handed to add_argument as type=...                 *)
(***************************************************************************)
\* int(arg): TypeError on None, ValueError on a non-numeral
py_int(arg) ==
    CASE arg.k = "int" -> arg
      [] arg.k = "str" ->
            IF \E n \in Ints : ToString(n) = arg.s
            THEN IntV(CHOOSE n \in Ints : ToString(n) = arg.s)
            ELSE Raised("invalid literal for int()")
      [] OTHER -> Raised("int() argument must be a string or a number")

\* str(arg): never raises; str(None) is the string 'None'
py_str(arg) ==
    CASE arg.k = "int" -> StrV(ToString(arg.i))
      [] arg.k = "str" -> arg
      [] OTHER -> StrV("None")

\* the conversion functions of the model, by name; "notype" is type=None
TypeNames == {"int", "str"}
NoType == "notype"

type_func(tf, arg) ==
    CASE tf = "int" -> py_int(arg)
      [] tf = "str" -> py_str(arg)

(***************************************************************************)
(* RequestParser.add_argument: the wrappers put around type_func.  A call  *)
(* returns its value (or the exception it raises) and the sequence of      *)
(* arguments type_func was invoked with.                                   *)
(***************************************************************************)
\* a faulty required wrapper: None is handed on to type_func
new_type_func_required_nocheck(tf, arg) ==
    [val |-> type_func(tf, arg), calls |-> <<arg>>]

new_type_func_required(tf, arg) ==
    IF arg = None
    THEN [val |-> Raised("Required value may not be null"), calls |-> <<>>]
    ELSE [val |-> type_func(tf, arg), calls |-> <<arg>>]

\* a faulty optional wrapper: None is handed on to type_func
new_type_func_optional_nocheck(tf, arg) ==
    [val |-> type_func(tf, arg), calls |-> <<arg>>]

new_type_func_optional(tf, arg) ==
    IF arg = None
    THEN [val |-> arg, calls |-> <<>>]
    ELSE [val |-> type_func(tf, arg), calls |-> <<arg>>]

\* a field descriptor: the kwargs of one add_argument call
FieldDescs == [type : TypeNames \cup {NoType}, required : BOOLEAN]

\* the type function the parent class ends up with for a field, applied to arg
add_argument(desc, arg) ==
    IF desc.type # NoType
    THEN IF desc.required
         THEN new_type_func_required(desc.type, arg)
         ELSE new_type_func_optional(desc.type, arg)
    ELSE \* kwargs untouched: reqparse's default type is the text type
         [val |-> py_str(arg), calls |-> <<>>]

\* reqparse Argument.parse for one field: a missing key is an error for a
\* required field and the default None otherwise; a present value goes
\* through the field's type function, whose exception is a 400.
ArgumentParse(desc, raw) ==
    IF raw = Missing
    THEN IF desc.required
         THEN [val |-> Raised("Missing required parameter"), calls |-> <<>>]
         ELSE [val |-> None, calls |-> <<>>]
    ELSE add_argument(desc, raw)

\* parser.parse_args(): the fields in declaration order, aborting with a 400
\* naming the first field that fails
RECURSIVE parse_from(_, _, _, _, _)
parse_from(order, schema, payload, n, acc) ==
    IF n > Len(order)
    THEN acc
    ELSE LET f == order[n]
             r == ArgumentParse(schema[f], payload[f])
         IN IF r.val.k = "raise"
            THEN [acc EXCEPT !.status = "400", !.field = f,
                             !.error = r.val.s, !.calls[f] = r.calls]
            ELSE parse_from(order, schema, payload, n + 1,
                            [acc EXCEPT !.args[f] = r.val, !.calls[f] = r.calls])

parse_args(order, schema, payload) ==
    parse_from(order, schema, payload, 1,
               [status |-> "ok", field |-> "", error |-> "",
                args |-> [f \in DOMAIN schema |-> Missing],
                calls |-> [f \in DOMAIN schema |-> <<>>]])

(***************************************************************************)
(* Tables and responses.                                                   *)
(***************************************************************************)
ParentIds == 1..MaxParents
ChildIds == 1..MaxChildren
Users == 1..MaxUsers
\* rows of the two tables a join table refers to; they exist throughout
LeftRows == 1..MaxLeft
RightRows == 1..MaxRight
\* ids a link request can name: the existing rows and one id of no row
LeftArgs == 1..(MaxLeft + 1)
RightArgs == 1..(MaxRight + 1)

\* no row under this id
NoRow == [absent |-> TRUE]

\* the keys a request body can carry in the controllers' specifications
PayloadKeys == {"x", "creator_id", "parent_id"}
NoPayload == [f \in PayloadKeys |-> Missing]
\* raw values a body carries under a key there
BodyValues == {Missing, None, StrV("a")} \cup {IntV(n) : n \in Ints}

\* what a request returned, and what it did to the session
NoBody == [id |-> 0]
NoCall == [op |-> "none", a |-> 0, b |-> 0, caller |-> 0, payload |-> NoPayload,
           status |-> "none", body |-> NoBody, items |-> {},
           commits |-> 0, rollbacks |-> 0, session |-> "clean"]
\* no ManyToOneLink.post between build_args and create_resource
NoRequest == [absent |-> TRUE]

(***************************************************************************)
(* State.                                                                  *)
(***************************************************************************)
VARIABLES
    schema,     \* parser under test: field name -> descriptor
    payload,    \* request under test: field name -> raw value
    parsed,     \* result of parse_args on it, or NotParsed
    parents,    \* the resource table: id -> row [creator_id, x] or NoRow
    children,   \* the child table: id -> row [creator_id, parent_id] or NoRow
    building,   \* the ManyToOneLink.post that has built its args, or NoRequest
    id_names,   \* what left_id_name / right_id_name are set to: "name" or "column"
    links,      \* committed rows of the join table: pairs <<left_id, right_id>>
    pending,    \* rows inserted by ManyToManyLink.put requests not yet committed
    last        \* the last completed call: its arguments, response and session use

vars == <<schema, payload, parsed, parents, children, building,
          id_names, links, pending, last>>

parserVars == <<schema, payload, parsed>>
resourceVars == <<parents, children, building>>
linkVars == <<id_names, links, pending>>

(***************************************************************************)
(* Specification of the parser alone: every schema of two fields and every *)
(* payload for it, parsed once.                                            *)
(***************************************************************************)
FieldOrder == <<"name", "age">>
FieldNames == {"name", "age"}
NotParsed == [status |-> "none", field |-> "", error |-> "",
              args |-> [f \in FieldNames |-> Missing],
              calls |-> [f \in FieldNames |-> <<>>]]

InitParse ==
    /\ schema \in [FieldNames -> FieldDescs]
    /\ payload \in [FieldNames -> RawValues]
    /\ parsed = NotParsed
    /\ parents = [i \in ParentIds |-> NoRow]
    /\ children = [i \in ChildIds |-> NoRow]
    /\ building = NoRequest
    /\ id_names = "name"
    /\ links = {}
    /\ pending = {}
    /\ last = NoCall

ParseRequest ==
    /\ parsed = NotParsed
    /\ parsed' = parse_args(FieldOrder, schema, payload)
    /\ UNCHANGED <<schema, payload, resourceVars, linkVars, last>>

NextParse == ParseRequest

SpecParse == InitParse /\ [][NextParse]_vars

(***************************************************************************)
(* Claims about the parser, checked under SpecParse.                       *)
(***************************************************************************)
\* position of a field in the declaration order
FieldIndex(f) == CHOOSE n \in 1..Len(FieldOrder) : FieldOrder[n] = f

\* parse_args ran and got as far as field f
ParseReached(f) ==
    /\ parsed.status # "none"
    /\ parsed.status = "400" => FieldIndex(parsed.field) >= FieldIndex(f)

\* C8: a required field with a conversion function whose value is null makes
\* parsing fail with a validation error, whatever the conversion function does
\* with null (str turns it into 'None', int raises), and the conversion
\* function is never applied to the null.
C8_RequiredNullIsValidationError ==
    \A f \in FieldNames :
        (/\ parsed.status # "none"
         /\ schema[f].type # NoType
         /\ schema[f].required
         /\ payload[f] = None)
        => /\ parsed.status = "400"
           /\ parsed.calls[f] = <<>>
           /\ ParseReached(f) =>
                /\ parsed.field = f
                /\ parsed.error = "Required value may not be null"

\* a required str field was null, parsing got to it and failed on it
C8_Witness ==
    /\ parsed.status = "400"
    /\ parsed.field = "age"
    /\ schema["age"] = [type |-> "str", required |-> TRUE]
    /\ payload["age"] = None
    /\ type_func("str", None) = StrV("None")

\* C9: an optional field with a conversion function whose value is null parses
\* to null without the conversion function being invoked, and so never makes
\* parsing fail; a non-null value parses to the conversion function applied to
\* the raw value.
C9_OptionalNullPassesThrough ==
    \A f \in FieldNames :
        (/\ ParseReached(f)
         /\ schema[f].type # NoType
         /\ ~schema[f].required)
        => /\ payload[f] = None =>
                /\ parsed.calls[f] = <<>>
                /\ parsed.field # f
                /\ parsed.status = "ok" => parsed.args[f] = None
           /\ payload[f] \notin {None, Missing} =>
                /\ parsed.calls[f] = <<payload[f]>>
                /\ parsed.status = "ok" =>
                        parsed.args[f] = type_func(schema[f].type, payload[f])
                /\ parsed.field = f =>
                        type_func(schema[f].type, payload[f]).k = "raise"

\* the scenario {name: required str, age: optional int} with age null: int
\* would raise on the null, and parsing succeeds with age null
C9_Witness ==
    /\ parsed.status = "ok"
    /\ schema["name"] = [type |-> "str", required |-> TRUE]
    /\ schema["age"] = [type |-> "int", required |-> FALSE]
    /\ payload["age"] = None
    /\ parsed.args["age"] = None
    /\ type_func("int", None).k = "raise"

(***************************************************************************)
(* ManyToManyLink.  The join table has a foreign key to each side and a    *)
(* unique constraint on the pair; the storage engine raises IntegrityError *)
(* for an insert that breaks either.                                       *)
(***************************************************************************)
\* session.execute(insert) raises IntegrityError: a side that is no row, or a
\* pair that is already linked
insert_raises(l, r) ==
    \/ l \notin LeftRows
    \/ r \notin RightRows
    \/ <<l, r>> \in links

\* self.left_id_name == left_id for a row: a column compares the row's value
\* with the id; a name is a Python string, never equal to an integer id
left_id_matches(row, l) ==
    IF id_names = "column" THEN row[1] = l ELSE FALSE

right_id_matches(row, r) ==
    IF id_names = "column" THEN row[2] = r ELSE FALSE

\* the rows the delete statement's where clause selects
delete_where(l, r) ==
    {row \in links : left_id_matches(row, l) /\ right_id_matches(row, r)}

\* what put returns from its except clause: nothing (a 200), with neither a
\* commit nor a rollback after the failed statement
put_except(l, r) ==
    [NoCall EXCEPT !.op = "link", !.a = l, !.b = r, !.status = "200",
                   !.commits = 0, !.rollbacks = 0, !.session = "failed"]

\* put, up to session.execute(insert).  An insert of a pair another request
\* has inserted and not yet committed waits for that request.
LinkPutExecute(l, r) ==
    /\ <<l, r>> \notin pending
    /\ IF insert_raises(l, r)
       THEN /\ last' = put_except(l, r)
            /\ UNCHANGED pending
       ELSE /\ Cardinality(pending) < MaxRequests
            /\ pending' = pending \cup {<<l, r>>}
            /\ UNCHANGED last
    /\ UNCHANGED <<parserVars, resourceVars, id_names, links>>

\* put, session.commit() after an insert that went through
LinkPutCommit(l, r) ==
    /\ <<l, r>> \in pending
    /\ pending' = pending \ {<<l, r>>}
    /\ links' = links \cup {<<l, r>>}
    /\ last' = [NoCall EXCEPT !.op = "link", !.a = l, !.b = r, !.status = "200",
                              !.commits = 1, !.session = "clean"]
    /\ UNCHANGED <<parserVars, resourceVars, id_names>>

\* delete: execute the delete statement, commit, 404 when rowcount is 0
LinkDelete(l, r) ==
    LET deleted == delete_where(l, r)
    IN /\ links' = links \ deleted
       /\ last' = [NoCall EXCEPT !.op = "unlink", !.a = l, !.b = r,
                                 !.status = IF Cardinality(deleted) = 0
                                            THEN "404" ELSE "200",
                                 !.commits = 1, !.session = "clean"]
       /\ UNCHANGED <<parserVars, resourceVars, id_names, pending>>

InitLink ==
    /\ schema = [f \in FieldNames |-> [type |-> NoType, required |-> FALSE]]
    /\ payload = [f \in FieldNames |-> Missing]
    /\ parsed = NotParsed
    /\ parents = [i \in ParentIds |-> NoRow]
    /\ children = [i \in ChildIds |-> NoRow]
    /\ building = NoRequest
    /\ id_names \in {"name", "column"}
    /\ links = {}
    /\ pending = {}
    /\ last = NoCall

NextLink ==
    \/ \E l \in LeftArgs, r \in RightArgs : LinkPutExecute(l, r)
    \/ \E l \in LeftArgs, r \in RightArgs : LinkPutCommit(l, r)
    \/ \E l \in LeftArgs, r \in RightArgs : LinkDelete(l, r)

SpecLink == InitLink /\ [][NextLink]_vars

(***************************************************************************)
(* Claims about ManyToManyLink, checked under SpecLink.                    *)
(***************************************************************************)
\* C1: whenever a link(L, R) call has completed, it completed with a success
\* response and the join table holds the row (L, R) (once: the table's rows
\* are a set under its unique constraint).
C1_LinkLeavesOneRow ==
    last.op = "link" =>
        /\ last.status = "200"
        /\ <<last.a, last.b>> \in links

\* C2: unlink(L, R) of a linked pair removes exactly the row (L, R) and
\* returns success.
C2_UnlinkRemovesTheRow ==
    [][\A l \in LeftArgs, r \in RightArgs :
          (LinkDelete(l, r) /\ <<l, r>> \in links)
          => /\ <<l, r>> \notin links'
             /\ links' = links \ {<<l, r>>}
             /\ last'.status = "200"]_vars

(***************************************************************************)
(* The resource classes the controllers are instantiated with.  A resource *)
(* row has a creator and one schema field x; a child row has a creator and *)
(* a foreign key, not null, to its parent resource.                        *)
(***************************************************************************)
\* parser of the SimpleResource subclass (PUT): x only
UpdateOrder == <<"x">>
UpdateSchema == [f \in {"x"} |-> [type |-> "int", required |-> TRUE]]

\* parser of the SimpleCreate subclass for resources (POST)
CreateOrder == <<"x", "creator_id">>
CreateSchema ==
    [f \in {"x", "creator_id"} |->
        IF f = "x" THEN [type |-> "int", required |-> TRUE]
                   ELSE [type |-> "int", required |-> FALSE]]

\* parser of the classes that create child rows; parent_id_name = "parent_id"
ChildOrder == <<"creator_id", "parent_id">>
ChildSchema ==
    [f \in {"creator_id", "parent_id"} |-> [type |-> "int", required |-> FALSE]]

\* request bodies for the resource classes: any value under x, and possibly
\* a creator_id
ResourcePayloads ==
    {pl \in [PayloadKeys -> BodyValues] :
        /\ pl["creator_id"].k \in {"missing", "int"}
        /\ pl["parent_id"] = Missing}

\* request bodies for the child classes: possibly a creator_id (or a
\* non-number under it) and possibly the id of a parent
ChildPayloads ==
    {pl \in [PayloadKeys -> BodyValues] :
        /\ pl["x"] = Missing
        /\ pl["creator_id"] # None
        /\ \/ pl["parent_id"] = Missing
           \/ pl["parent_id"].k = "int" /\ pl["parent_id"].i \in ParentIds}

\* as_dict of the subclasses: the row's attributes and its id
as_dict(id, row) ==
    [id |-> id, creator_id |-> row.creator_id, x |-> row.x]

as_dict_child(id, row) ==
    [id |-> id, creator_id |-> row.creator_id, parent_id |-> row.parent_id]

\* resource_type(**args) of the subclasses
NewResource(args) == [creator_id |-> args["creator_id"], x |-> args["x"]]

NewChild(args) ==
    [creator_id |-> args["creator_id"], parent_id |-> args["parent_id"]]

\* the id the storage engine gives the next inserted row
NextId(table) ==
    IF \A i \in DOMAIN table : table[i] = NoRow
    THEN 1
    ELSE 1 + CHOOSE i \in DOMAIN table :
                /\ table[i] # NoRow
                /\ \A j \in DOMAIN table : table[j] # NoRow => j <= i

\* the child rows that refer to resource id
ChildrenOf(id) ==
    {c \in ChildIds : children[c] # NoRow /\ children[c].parent_id = IntV(id)}

\* the foreign key of a child row holds: its parent is a row
ParentExists(v) ==
    /\ v.k = "int"
    /\ v.i \in ParentIds
    /\ parents[v.i] # NoRow

(***************************************************************************)
(* SimpleResource                                                          *)
(***************************************************************************)
\* the setattr loop: every key of the parsed update is assigned
setattr_all(resource, update) ==
    [k \in DOMAIN resource |->
        IF k \in DOMAIN update THEN update[k] ELSE resource[k]]

\* a faulty update: every attribute the request body names is assigned, not
\* only the fields the parser declares
put_update_from_body(resource, pl) ==
    LET update == parse_args(UpdateOrder, UpdateSchema, pl)
    IN IF update.status = "400"
       THEN [status |-> "400", resource |-> resource]
       ELSE [status |-> "200",
             resource |->
                [k \in DOMAIN resource |->
                    IF pl[k] # Missing THEN py_int(pl[k]) ELSE resource[k]]]

\* put, once the resource is found: parse the update and assign its fields
put_update(resource, pl) ==
    LET update == parse_args(UpdateOrder, UpdateSchema, pl)
    IN IF update.status = "400"
       THEN [status |-> "400", resource |-> resource]
       ELSE [status |-> "200", resource |-> setattr_all(resource, update.args)]

\* a faulty put: the request is parsed before the resource is looked up
put_parse_first(id, pl) ==
    LET resource == parents[id]
        update == parse_args(UpdateOrder, UpdateSchema, pl)
    IN IF update.status = "400"
       THEN [status |-> "400", table |-> parents, body |-> NoBody,
             commits |-> 0, session |-> "clean"]
       ELSE IF resource = NoRow
       THEN [status |-> "404", table |-> parents, body |-> NoBody,
             commits |-> 0, session |-> "open"]
       ELSE [status |-> "200",
             table |-> [parents EXCEPT ![id] = setattr_all(resource, update.args)],
             body |-> as_dict(id, setattr_all(resource, update.args)),
             commits |-> 1, session |-> "clean"]

\* put: the response, the table after it, and the session's use.  The query
\* opens a transaction, which only the commit of an update ends.
put(id, pl) ==
    LET resource == parents[id]
    IN IF resource = NoRow
       THEN [status |-> "404", table |-> parents, body |-> NoBody,
             commits |-> 0, session |-> "open"]
       ELSE LET done == put_update(resource, pl)
            IN IF done.status = "400"
               THEN [status |-> "400", table |-> parents, body |-> NoBody,
                     commits |-> 0, session |-> "open"]
               ELSE [status |-> "200",
                     table |-> [parents EXCEPT ![id] = done.resource],
                     body |-> as_dict(id, done.resource),
                     commits |-> 1, session |-> "clean"]

\* delete: the bulk delete raises IntegrityError, uncaught, when a child row
\* still refers to the resource; otherwise commit, and 404 for zero rows
delete(id) ==
    IF parents[id] # NoRow /\ ChildrenOf(id) # {}
    THEN [status |-> "IntegrityError", table |-> parents,
          commits |-> 0, session |-> "failed"]
    ELSE [status |-> IF parents[id] = NoRow THEN "404" ELSE "200",
          table |-> [parents EXCEPT ![id] = NoRow],
          commits |-> 1, session |-> "clean"]

SimpleGet(id) ==
    /\ last' = IF parents[id] = NoRow
               THEN [NoCall EXCEPT !.op = "get", !.a = id, !.status = "404",
                                   !.session = "open"]
               ELSE [NoCall EXCEPT !.op = "get", !.a = id, !.status = "200",
                                   !.body = as_dict(id, parents[id]),
                                   !.session = "open"]
    /\ UNCHANGED <<parserVars, resourceVars, linkVars>>

SimplePut(id, pl) ==
    LET r == put(id, pl)
    IN /\ parents' = r.table
       /\ last' = [NoCall EXCEPT !.op = "put", !.a = id, !.payload = pl,
                                 !.status = r.status, !.body = r.body,
                                 !.commits = r.commits, !.session = r.session]
       /\ UNCHANGED <<parserVars, children, building, linkVars>>

SimpleDelete(id) ==
    LET r == delete(id)
    IN /\ parents' = r.table
       /\ last' = [NoCall EXCEPT !.op = "delete", !.a = id, !.status = r.status,
                                 !.commits = r.commits, !.session = r.session]
       /\ UNCHANGED <<parserVars, children, building, linkVars>>

(***************************************************************************)
(* SimpleCreate                                                            *)
(***************************************************************************)
\* post, up to the construction of the resource: the parsed arguments with
\* the caller's identity under creator_id
post_args(order, fields, pl, caller) ==
    LET args == parse_args(order, fields, pl)
    IN IF args.status = "400"
       THEN [status |-> "400", args |-> args.args]
       ELSE [status |-> "ok",
             args |-> [args.args EXCEPT !["creator_id"] = IntV(caller)]]

\* post of the subclass for resources: nothing constrains the new row
SimpleCreatePost(pl, caller) ==
    LET built == post_args(CreateOrder, CreateSchema, pl, caller)
        id == NextId(parents)
    IN /\ IF built.status = "400"
          THEN /\ last' = [NoCall EXCEPT !.op = "post", !.caller = caller,
                                         !.status = "400"]
               /\ UNCHANGED parents
          ELSE /\ id <= MaxParents
               /\ parents' = [parents EXCEPT ![id] = NewResource(built.args)]
               /\ last' = [NoCall EXCEPT !.op = "post", !.caller = caller,
                                         !.status = "200",
                                         !.body = as_dict(id, parents'[id]),
                                         !.commits = 1, !.session = "clean"]
       /\ UNCHANGED <<parserVars, children, building, linkVars>>

\* post of a subclass whose resource_type is the child class, the parent id
\* being a field of the body: the commit raises IntegrityError, uncaught,
\* when that is the id of no parent (or null)
SimpleCreateChild(pl, caller) ==
    LET built == post_args(ChildOrder, ChildSchema, pl, caller)
        id == NextId(children)
    IN /\ IF built.status = "400"
          THEN /\ last' = [NoCall EXCEPT !.op = "post", !.caller = caller,
                                         !.status = "400"]
               /\ UNCHANGED children
          ELSE IF ~ParentExists(built.args["parent_id"])
          THEN /\ last' = [NoCall EXCEPT !.op = "post", !.caller = caller,
                                         !.status = "IntegrityError",
                                         !.session = "failed"]
               /\ UNCHANGED children
          ELSE /\ id <= MaxChildren
               /\ children' = [children EXCEPT ![id] = NewChild(built.args)]
               /\ last' = [NoCall EXCEPT !.op = "post", !.caller = caller,
                                         !.status = "200",
                                         !.body = as_dict_child(id, children'[id]),
                                         !.commits = 1, !.session = "clean"]
       /\ UNCHANGED <<parserVars, parents, building, linkVars>>

(***************************************************************************)
(* ManyToOneLink                                                           *)
(***************************************************************************)
\* a faulty build_args: a creator_id or parent id carried by the request is kept
build_args_keep_body(parent_id, pl, caller) ==
    LET args == parse_args(ChildOrder, ChildSchema, pl)
        keep(f, v) == IF args.args[f] # None THEN args.args[f] ELSE v
    IN IF args.status = "400"
       THEN [status |-> "400", args |-> args.args]
       ELSE [status |-> "ok",
             args |-> [creator_id |-> keep("creator_id", IntV(caller)),
                       parent_id |-> keep("parent_id", IntV(parent_id))]]

\* build_args: the parsed arguments with the caller's identity under
\* creator_id and the parent id under parent_id_name
build_args(parent_id, pl, caller) ==
    LET args == parse_args(ChildOrder, ChildSchema, pl)
    IN IF args.status = "400"
       THEN [status |-> "400", args |-> args.args]
       ELSE [status |-> "ok",
             args |-> [args.args EXCEPT !["creator_id"] = IntV(caller),
                                        !["parent_id"] = IntV(parent_id)]]

\* a faulty create_resource: no except clause
create_resource_uncaught(args) ==
    LET id == NextId(children)
    IN IF ParentExists(args["parent_id"])
       THEN [status |-> "200", table |-> [children EXCEPT ![id] = NewChild(args)],
             body |-> as_dict_child(id, NewChild(args)),
             commits |-> 1, session |-> "clean"]
       ELSE [status |-> "IntegrityError", table |-> children, body |-> NoBody,
             commits |-> 0, session |-> "failed"]

\* create_resource: add and commit; the commit's IntegrityError (no such
\* parent) is caught and answered with a 404, the session left as it failed
create_resource(args) ==
    LET id == NextId(children)
    IN IF ParentExists(args["parent_id"])
       THEN [status |-> "200", table |-> [children EXCEPT ![id] = NewChild(args)],
             body |-> as_dict_child(id, NewChild(args)),
             commits |-> 1, session |-> "clean"]
       ELSE [status |-> "404", table |-> children, body |-> NoBody,
             commits |-> 0, session |-> "failed"]

\* post, first half: build_args.  A request whose body does not parse ends
\* here with a 400.
ManyToOneBuildArgs(parent_id, pl, caller) ==
    LET built == build_args(parent_id, pl, caller)
    IN /\ building = NoRequest
       /\ IF built.status = "400"
          THEN /\ last' = [NoCall EXCEPT !.op = "child_post", !.a = parent_id,
                                         !.caller = caller, !.status = "400"]
               /\ UNCHANGED building
          ELSE /\ building' = [args |-> built.args, a |-> parent_id,
                               caller |-> caller]
               /\ UNCHANGED last
       /\ UNCHANGED <<parserVars, parents, children, linkVars>>

\* post, second half: create_resource with the args built
ManyToOneCreateResource ==
    /\ building # NoRequest
    /\ ParentExists(building.args["parent_id"]) => NextId(children) <= MaxChildren
    /\ LET r == create_resource(building.args)
       IN /\ children' = r.table
          /\ last' = [NoCall EXCEPT !.op = "child_post", !.a = building.a,
                                    !.caller = building.caller,
                                    !.status = r.status, !.body = r.body,
                                    !.commits = r.commits, !.session = r.session]
    /\ building' = NoRequest
    /\ UNCHANGED <<parserVars, parents, linkVars>>

\* get: the children of a parent, or 404
ManyToOneGet(parent_id) ==
    /\ last' = IF parents[parent_id] = NoRow
               THEN [NoCall EXCEPT !.op = "child_list", !.a = parent_id,
                                   !.status = "404", !.session = "open"]
               ELSE [NoCall EXCEPT !.op = "child_list", !.a = parent_id,
                                   !.status = "200",
                                   !.items = {as_dict_child(c, children[c]) :
                                                c \in ChildrenOf(parent_id)},
                                   !.session = "open"]
    /\ UNCHANGED <<parserVars, resourceVars, linkVars>>

(***************************************************************************)
(* Specification of SimpleResource and SimpleCreate on a resource table,   *)
(* empty at first.                                                         *)
(***************************************************************************)
InitSimple ==
    /\ schema = [f \in FieldNames |-> [type |-> NoType, required |-> FALSE]]
    /\ payload = [f \in FieldNames |-> Missing]
    /\ parsed = NotParsed
    /\ parents = [i \in ParentIds |-> NoRow]
    /\ children = [i \in ChildIds |-> NoRow]
    /\ building = NoRequest
    /\ id_names = "name"
    /\ links = {}
    /\ pending = {}
    /\ last = NoCall

NextSimple ==
    \/ \E id \in ParentIds : SimpleGet(id)
    \/ \E id \in ParentIds, pl \in ResourcePayloads : SimplePut(id, pl)
    \/ \E id \in ParentIds : SimpleDelete(id)
    \/ \E pl \in ResourcePayloads, u \in Users : SimpleCreatePost(pl, u)

SpecSimple == InitSimple /\ [][NextSimple]_vars

(***************************************************************************)
(* Specification of the classes working on the child table, under parents  *)
(* that exist at first and can be deleted.                                 *)
(***************************************************************************)
InitChild ==
    /\ schema = [f \in FieldNames |-> [type |-> NoType, required |-> FALSE]]
    /\ payload = [f \in FieldNames |-> Missing]
    /\ parsed = NotParsed
    /\ parents = [i \in ParentIds |-> [creator_id |-> IntV(1), x |-> IntV(1)]]
    /\ children = [i \in ChildIds |-> NoRow]
    /\ building = NoRequest
    /\ id_names = "name"
    /\ links = {}
    /\ pending = {}
    /\ last = NoCall

NextChild ==
    \/ \E id \in ParentIds, pl \in ChildPayloads, u \in Users :
            ManyToOneBuildArgs(id, pl, u)
    \/ ManyToOneCreateResource
    \/ \E id \in ParentIds : ManyToOneGet(id)
    \/ \E id \in ParentIds : SimpleDelete(id)
    \/ \E pl \in ChildPayloads, u \in Users : SimpleCreateChild(pl, u)

SpecChild == InitChild /\ [][NextChild]_vars

(***************************************************************************)
(* Claims about SimpleResource, checked under SpecSimple.  Every step of   *)
(* NextSimple is one whole call and records it in last, so a step whose    *)
(* last' names a call is that call, made in the state before the step.     *)
(***************************************************************************)
\* C5: get, put and delete on a selector that matches no row answer 404,
\* whatever the body of the request (put does not get to parse it), and
\* leave every stored row as it was.
C5_MissingSelectorIs404 ==
    [][(/\ last'.op \in {"get", "put", "delete"}
        /\ parents[last'.a] = NoRow)
       => /\ last'.status = "404"
          /\ parents' = parents
          /\ children' = children]_vars

\* a put on a selector of no row, with a body that the parser rejects,
\* answered 404
C5_Witness ==
    /\ last.op = "put"
    /\ last.status = "404"
    /\ parents[last.a] = NoRow
    /\ parse_args(UpdateOrder, UpdateSchema, last.payload).status = "400"

\* C6: a put on an existing resource changes no attribute of it outside the
\* parser's schema (here creator_id; the schema is x), keeps the row, and
\* changes no other row; when it succeeds x is the parsed value.
C6_PutTouchesOnlySchemaFields ==
    [][(/\ last'.op = "put"
        /\ parents[last'.a] # NoRow)
       => /\ parents'[last'.a] # NoRow
          /\ parents'[last'.a].creator_id = parents[last'.a].creator_id
          /\ \A j \in ParentIds \ {last'.a} : parents'[j] = parents[j]
          /\ children' = children
          /\ last'.status = "200" =>
                parents'[last'.a].x = py_int(last'.payload["x"])
          /\ last'.status # "200" => parents' = parents]_vars

\* a successful put whose body carried a creator_id other than the row's,
\* next to another row
C6_Witness ==
    /\ last.op = "put"
    /\ last.status = "200"
    /\ last.payload["creator_id"].k = "int"
    /\ parents[last.a] # NoRow
    /\ last.payload["creator_id"] # parents[last.a].creator_id
    /\ parents[last.a].x = py_int(last.payload["x"])
    /\ \E j \in ParentIds \ {last.a} : parents[j] # NoRow

(***************************************************************************)
(* Claims about the classes on the child table, checked under SpecChild.   *)
(* A step that takes building from a request to NoRequest is               *)
(* create_resource for that request; a step that ends with no request      *)
(* building and a child_post in last' is a ManyToOneLink.post completing.  *)
(***************************************************************************)
\* C3: no call ends with an IntegrityError raised to the caller.
C3_NoRawIntegrityError ==
    last.status # "IntegrityError"

\* C4, as claimed: a ManyToOneLink.post that completes while its parent id is
\* the id of no row answers 404 and persists no child.
C4_MissingParentIs404 ==
    [][(/\ last'.op = "child_post"
        /\ building' = NoRequest
        /\ parents[last'.a] = NoRow)
       => /\ last'.status = "404"
          /\ children' = children]_vars

\* C4, amended: a ManyToOneLink.post whose body the parser accepts, and whose
\* parent id is the id of no row when the insert is committed (also when the
\* parent was deleted after build_args), answers 404, not an IntegrityError,
\* and persists no child.
C4_MissingParentIs404_WhenParsed ==
    [][(/\ building # NoRequest
        /\ building' = NoRequest
        /\ parents[building.a] = NoRow)
       => /\ last'.op = "child_post"
          /\ last'.a = building.a
          /\ last'.status = "404"
          /\ children' = children]_vars

\* a post answered 404: its parent was no row at the commit
C4_Witness ==
    /\ last.op = "child_post"
    /\ last.status = "404"
    /\ parents[last.a] = NoRow
    /\ building = NoRequest

\* C7: build_args puts the caller and the parent id of the request into the
\* args whatever the body carries under those keys; create_resource under an
\* existing parent succeeds, persisting and returning a child with that
\* parent and creator; a SimpleCreate.post that succeeds persists and returns
\* a row whose creator is the caller.
C7_InjectedParentAndCreator ==
    [][/\ (building = NoRequest /\ building' # NoRequest)
            => building'.args = [creator_id |-> IntV(building'.caller),
                                 parent_id |-> IntV(building'.a)]
       /\ (/\ building # NoRequest
           /\ building' = NoRequest
           /\ parents[building.a] # NoRow)
            => /\ last'.status = "200"
               /\ last'.body.creator_id = IntV(building.caller)
               /\ last'.body.parent_id = IntV(building.a)
               /\ children[last'.body.id] = NoRow
               /\ children'[last'.body.id] =
                        [creator_id |-> IntV(building.caller),
                         parent_id |-> IntV(building.a)]
       /\ (last'.op = "post" /\ last'.status = "200")
            => /\ last'.body.creator_id = IntV(last'.caller)
               /\ children'[last'.body.id].creator_id = IntV(last'.caller)]_vars

\* a child created under parent 2 by the second caller
C7_Witness ==
    /\ last.op = "child_post"
    /\ last.status = "200"
    /\ last.a = 2
    /\ last.caller = MaxUsers
    /\ last.body.parent_id = IntV(last.a)
    /\ last.body.creator_id = IntV(last.caller)
    /\ children[last.body.id] = [creator_id |-> IntV(last.caller),
                                 parent_id |-> IntV(last.a)]

(***************************************************************************)
(* Claim about the session, checked under SpecLink.                        *)
(***************************************************************************)
WriteOps == {"put", "delete", "post", "child_post", "link", "unlink"}

\* C10: every write call ends the session's transaction exactly once, by a
\* commit or a rollback, and returns with no transaction left open or failed.
C10_TransactionEndedOnce ==
    last.op \in WriteOps =>
        /\ last.commits + last.rollbacks = 1
        /\ last.session = "clean"

====
